---- MODULE Spec2Model ----
(***************************************************************************)
(* UIPC (system/udrv/ulinux/uipc.cc): a fixed table of channels, each a    *)
(* local server socket with at most one accepted peer, multiplexed by one  *)
(* read task blocked in select(); foreground calls mutate the table under  *)
(* a recursive mutex and interrupt the select through a socketpair.        *)
(*                                                                         *)
(* The kernel side (descriptor table, socket queues, hangup) is modelled   *)
(* as far as the code observes it: descriptors are numbered lowest-free,   *)
(* a stream socket whose peer has closed polls POLLIN|POLLHUP, a closed    *)
(* descriptor polls POLLNVAL, a blocking send on a full socket blocks.     *)
(***************************************************************************)
EXTENDS Integers, Sequences, FiniteSets, TLC

\* ---------------------------------------------------------------- constants
UIPC_CH_ID_AV_CTRL == 0
UIPC_CH_ID_AV_AUDIO == 1
UIPC_CH_NUM == 2
UIPC_CH_ID_ALL == 3
UIPC_DISCONNECTED == -1
UIPC_FLUSH_BUFFER_SIZE == 1024
UIPC_TASK_FLAG_DISCONNECT_CHAN == 1
DEFAULT_READ_POLL_TMO_MS == 100

\* ------------------------------------------------------------------- bounds
\* API calls made in one behaviour, by all caller threads together
MaxCalls == 2
\* connections peers make, writes peers make
MaxConnects == 2
MaxWrites == 1
\* largest descriptor number the process may hold (0..2 are the standard streams)
MaxFdNum == 8
\* bytes the wakeup socketpair buffers before a blocking send blocks
SigCap == 4
\* calls made in the scenario of two channels opened with callbacks and closed
MaxPrioCalls == 3
\* UIPC_Close requests that reach the wakeup in the scenario of concurrent disconnects
MaxDisconnects == 2
\* calls that send a wakeup in the scenario of wakeups without a drain
MaxSignals == 5

NULL == "NULL"
Callers == {"t1", "t2"}
NoOwner == "free"
Chan == 0 .. (UIPC_CH_NUM - 1)
FdNums == 3 .. MaxFdNum
\* payload sizes: one byte, and one byte more than a flush chunk
Sizes == {1, UIPC_FLUSH_BUFFER_SIZE + 1}

VARIABLES
  uipc_main,   \* tUIPC_MAIN: tid, running, active_set, read_set, max_fd, signal_fds, ch
  fdtab,       \* the process's descriptors: kind, socket name, queued bytes/connections, hangup
  mutex,       \* owner of uipc_main.mutex while a thread holds it across steps
  task,        \* uipc_read_task: its position and loop index
  thr,         \* caller threads: position in the call in progress and its locals
  last,        \* the API call that returned in the step just taken, and what it returned
  evlog,       \* the callbacks the read task made in the step just taken, in order
  nclose,      \* UIPC_CLOSE_EVT deliveries per channel
  oserr,       \* system calls that hit a descriptor that is not what the code takes it for
  ncalls, nconn, nwrite

vars ==
  <<uipc_main, fdtab, mutex, task, thr, last, evlog, nclose, oserr,
    ncalls, nconn, nwrite>>

\* ------------------------------------------------------------- kernel model
FreeFd == [kind |-> "free", name |-> -1, q |-> 0, hup |-> FALSE]

MAX(a, b) == IF a > b THEN a ELSE b

Min(a, b) == IF a < b THEN a ELSE b

IsOpen(fds, fd) == fd \in FdNums /\ fds[fd].kind # "free"

\* the number a new descriptor gets: the lowest one not in use, -1 when none is left
LowestFree(fds) ==
  LET free == {f \in FdNums : fds[f].kind = "free"}
  IN IF free = {} THEN -1 ELSE CHOOSE f \in free : \A g \in free : f <= g

\* readable in the sense of select()/POLLIN: queued data, a pending connection, or end of file
Readable(fds, fd) ==
  /\ IsOpen(fds, fd)
  /\ \/ fds[fd].q > 0
     \/ fds[fd].kind # "srv" /\ fds[fd].hup

\* close(fd): frees the number; closing one end of the socketpair hangs up the other
os_close(W, fd) ==
  IF IsOpen(W.fds, fd)
  THEN LET k == W.fds[fd].kind
           other == IF k = "sig0" THEN "sig1" ELSE IF k = "sig1" THEN "sig0" ELSE "none"
       IN [W EXCEPT !.fds = [f \in FdNums |->
                       IF f = fd THEN FreeFd
                       ELSE IF @[f].kind = other THEN [@[f] EXCEPT !.hup = TRUE]
                       ELSE @[f]]]
  ELSE [W EXCEPT !.err.close = TRUE]

\* socket(), bind to the channel's name, listen. ok: the provider succeeds
create_server_socket(W, name, ok) ==
  LET nfd == LowestFree(W.fds)
      bound == \E f \in FdNums : W.fds[f].kind = "srv" /\ W.fds[f].name = name
  IN IF ok /\ nfd # -1 /\ ~bound
     THEN [w |-> [W EXCEPT !.fds[nfd] = [kind |-> "srv", name |-> name, q |-> 0, hup |-> FALSE]],
           fd |-> nfd]
     ELSE [w |-> W, fd |-> -1]

\* poll(sfd, 0) then accept(): -1 when nothing is pending or accept fails
accept_server_socket(W, sfd, ok) ==
  LET nfd == LowestFree(W.fds)
  IN IF ~(IsOpen(W.fds, sfd) /\ W.fds[sfd].kind = "srv" /\ W.fds[sfd].q > 0)
     THEN [w |-> W, fd |-> -1]
     ELSE IF ~ok \/ nfd = -1
     THEN [w |-> W, fd |-> -1]
     ELSE [w |-> [W EXCEPT !.fds[sfd].q = @ - 1,
                           !.fds[nfd] = [kind |-> "conn", name |-> W.fds[sfd].name,
                                         q |-> 0, hup |-> FALSE]],
           fd |-> nfd]

\* ------------------------------------------------------- locked helper steps
\* The helpers run one after another on a record W of everything they touch:
\* m (uipc_main), fds, ev (callbacks made), nc, err; pe: what the memory behind
\* the channel table holds, read as a tUIPC_CHAN (it is not uipc_main's, so its
\* content is whatever the call finds there); blk: the thread is blocked in
\* send() on the full wakeup socket and goes no further.
PastEnd ==
  {[srvfd |-> v, fd |-> v, read_poll_tmo_ms |-> 0, task_evt_flags |-> 0, cback |-> NULL]
     : v \in {UIPC_DISCONNECTED, 0}}

World(pe) ==
  [m |-> uipc_main, pe |-> pe, fds |-> fdtab, ev |-> <<>>, nc |-> nclose,
   err |-> oserr, blk |-> FALSE]

\* what a call with index ch_id may find in the slot it addresses
Found(ch_id) == IF ch_id \in Chan THEN {CHOOSE pe \in PastEnd : TRUE} ELSE PastEnd

SAFE_FD_ISSET(fd, set) == IF fd = -1 THEN FALSE ELSE fd \in set

\* uipc_main.ch[ch_id]; an index past the table addresses the memory behind it
Slot(W, ch_id) == IF ch_id \in Chan THEN W.m.ch[ch_id] ELSE W.pe

SetSlot(W, ch_id, rec) ==
  IF ch_id \in Chan THEN [W EXCEPT !.m.ch[ch_id] = rec] ELSE [W EXCEPT !.pe = rec]

Callback(W, ch_id, event) ==
  [W EXCEPT !.ev = Append(@, <<W.m.ch[ch_id].cback, ch_id, event>>),
            !.nc[ch_id] = IF event = "UIPC_CLOSE_EVT" THEN @ + 1 ELSE @]

\* send() on signal_fds[1] cannot deliver: the descriptor is closed or no longer
\* the socketpair's write end, or the read end is gone
wakeup_fails(W) ==
  LET wfd == W.m.signal_fds[1]
  IN \/ ~(IsOpen(W.fds, wfd) /\ W.fds[wfd].kind = "sig1")
     \/ ~\E f \in FdNums : W.fds[f].kind = "sig0"

uipc_wakeup_locked(W) ==
  IF W.blk THEN W
  ELSE IF wakeup_fails(W) THEN [W EXCEPT !.err.wakeup = TRUE]
  ELSE LET rfd == CHOOSE f \in FdNums : W.fds[f].kind = "sig0"
       IN IF W.fds[rfd].q < SigCap
          THEN [W EXCEPT !.fds[rfd].q = @ + 1]
          ELSE [W EXCEPT !.blk = TRUE]

uipc_check_interrupt_locked(W) ==
  LET rfd == W.m.signal_fds[0]
  IN IF SAFE_FD_ISSET(rfd, W.m.read_set) /\ IsOpen(W.fds, rfd) /\ W.fds[rfd].q > 0
     THEN [W EXCEPT !.fds[rfd].q = @ - 1]
     ELSE W

uipc_close_ch_locked(W, ch_id) ==
  IF W.blk \/ ch_id >= UIPC_CH_NUM THEN W
  ELSE
    LET c0 == W.m.ch[ch_id]
        W1 == IF c0.srvfd # UIPC_DISCONNECTED
              THEN [os_close(W, c0.srvfd) EXCEPT
                      !.m.active_set = @ \ {c0.srvfd},
                      !.m.ch[ch_id].srvfd = UIPC_DISCONNECTED]
              ELSE W
        W2 == IF c0.fd # UIPC_DISCONNECTED
              THEN [os_close(W1, c0.fd) EXCEPT
                      !.m.active_set = @ \ {c0.fd},
                      !.m.ch[ch_id].fd = UIPC_DISCONNECTED]
              ELSE W1
        wakeup == c0.srvfd # UIPC_DISCONNECTED \/ c0.fd # UIPC_DISCONNECTED
        W3 == IF c0.cback # NULL THEN Callback(W2, ch_id, "UIPC_CLOSE_EVT") ELSE W2
    IN IF ~wakeup THEN W3
       ELSE IF wakeup_fails(W3)
       THEN [uipc_wakeup_locked(W3) EXCEPT !.err.teardown = TRUE]
       ELSE uipc_wakeup_locked(W3)

\* the loop of uipc_check_task_flags_locked from index i on
RECURSIVE check_task_flags_from(_, _)
check_task_flags_from(W, i) ==
  IF i >= UIPC_CH_NUM \/ W.blk THEN W
  ELSE IF W.m.ch[i].task_evt_flags % 2 = UIPC_TASK_FLAG_DISCONNECT_CHAN
  THEN check_task_flags_from(
         uipc_close_ch_locked(
           [W EXCEPT !.m.ch[i].task_evt_flags = @ - UIPC_TASK_FLAG_DISCONNECT_CHAN], i),
         i + 1)
  ELSE check_task_flags_from(W, i + 1)

uipc_check_task_flags_locked(W) == check_task_flags_from(W, 0)

\* ok: whether accept() succeeds should this call reach it
uipc_check_fd_locked(W, ch_id, ok) ==
  IF W.blk \/ ch_id >= UIPC_CH_NUM THEN W
  ELSE
    LET c0 == W.m.ch[ch_id]
        incoming == SAFE_FD_ISSET(c0.srvfd, W.m.read_set)
        acc == accept_server_socket(W, c0.srvfd, ok)
        Wa == [acc.w EXCEPT !.m.ch[ch_id].fd = acc.fd]
        Wb == IF acc.fd > 0 /\ c0.cback # NULL
              THEN [Wa EXCEPT !.m.active_set = @ \cup {acc.fd},
                              !.m.max_fd = MAX(@, acc.fd)]
              ELSE Wa
        Wc == IF c0.cback # NULL THEN Callback(Wb, ch_id, "UIPC_OPEN_EVT") ELSE Wb
        W1 == IF incoming THEN Wc ELSE W
    IN IF incoming /\ acc.fd < 0 THEN Wa
       ELSE IF SAFE_FD_ISSET(W1.m.ch[ch_id].fd, W1.m.read_set) /\ W1.m.ch[ch_id].cback # NULL
       THEN Callback(W1, ch_id, "UIPC_RX_DATA_READY_EVT")
       ELSE W1

\* uipc_setup_server_locked without the wakeup that makes the task update its read set
uipc_setup_server_locked_no_wakeup(W, ch_id, cback, ok) ==
  IF ch_id >= UIPC_CH_NUM THEN W
  ELSE
    LET cs == create_server_socket(W, ch_id, ok)
    IN IF cs.fd < 0 THEN W
       ELSE [cs.w EXCEPT !.m.active_set = @ \cup {cs.fd},
                         !.m.max_fd = MAX(@, cs.fd),
                         !.m.ch[ch_id].srvfd = cs.fd,
                         !.m.ch[ch_id].cback = cback,
                         !.m.ch[ch_id].read_poll_tmo_ms = DEFAULT_READ_POLL_TMO_MS]

\* ok: the socket provider succeeds
uipc_setup_server_locked(W, ch_id, cback, ok) ==
  IF ch_id >= UIPC_CH_NUM THEN W
  ELSE
    LET cs == create_server_socket(W, ch_id, ok)
    IN IF cs.fd < 0 THEN W
       ELSE uipc_wakeup_locked(
              [cs.w EXCEPT !.m.active_set = @ \cup {cs.fd},
                           !.m.max_fd = MAX(@, cs.fd),
                           !.m.ch[ch_id].srvfd = cs.fd,
                           !.m.ch[ch_id].cback = cback,
                           !.m.ch[ch_id].read_poll_tmo_ms = DEFAULT_READ_POLL_TMO_MS])

\* uipc_close_locked without its test for a channel that has no server socket
uipc_close_locked_unguarded(W, ch_id) ==
  uipc_wakeup_locked(
    SetSlot(W, ch_id,
      [Slot(W, ch_id) EXCEPT !.task_evt_flags =
         IF @ % 2 = 1 THEN @ ELSE @ + UIPC_TASK_FLAG_DISCONNECT_CHAN]))

\* uipc_close_locked tearing the channel down itself, on the caller's thread
uipc_close_locked_immediate(W, ch_id) == uipc_close_ch_locked(W, ch_id)

\* no bound check: ch_id indexes the table as it is
uipc_close_locked(W, ch_id) ==
  IF Slot(W, ch_id).srvfd = UIPC_DISCONNECTED THEN W
  ELSE uipc_wakeup_locked(
         SetSlot(W, ch_id,
           [Slot(W, ch_id) EXCEPT !.task_evt_flags =
              IF @ % 2 = 1 THEN @ ELSE @ + UIPC_TASK_FLAG_DISCONNECT_CHAN]))

\* the locked body of uipc_read_task's iteration; ok[c]: accept() succeeds for channel c
RECURSIVE check_other_fds_from(_, _, _)
check_other_fds_from(W, ch_id, ok) ==
  IF ch_id >= UIPC_CH_NUM THEN W
  ELSE IF ch_id # UIPC_CH_ID_AV_AUDIO
  THEN check_other_fds_from(uipc_check_fd_locked(W, ch_id, ok[ch_id]), ch_id + 1, ok)
  ELSE check_other_fds_from(W, ch_id + 1, ok)

\* the iteration servicing every channel in table order
uipc_read_task_locked_in_table_order(W, ok) ==
  LET W1 == uipc_check_interrupt_locked(W)
      W2 == uipc_check_task_flags_locked(W1)
      W3 == uipc_check_fd_locked(W2, UIPC_CH_ID_AV_CTRL, ok[UIPC_CH_ID_AV_CTRL])
  IN uipc_check_fd_locked(W3, UIPC_CH_ID_AV_AUDIO, ok[UIPC_CH_ID_AV_AUDIO])

uipc_read_task_locked(W, ok) ==
  LET W1 == uipc_check_interrupt_locked(W)
      W2 == uipc_check_task_flags_locked(W1)
      W3 == uipc_check_fd_locked(W2, UIPC_CH_ID_AV_AUDIO, ok[UIPC_CH_ID_AV_AUDIO])
  IN check_other_fds_from(W3, 0, ok)

\* ------------------------------------------------------------ the API bodies
\* Each yields the state it leaves (w), what it returns (ret) and whether it
\* touched memory behind the channel table (oob).
\* UIPC_Open without its test for a channel that is already open
UIPC_Open_reopen(W, ch_id, p_cback, ok) ==
  IF ch_id >= UIPC_CH_NUM
  THEN [w |-> W, ret |-> FALSE, oob |-> FALSE]
  ELSE [w |-> uipc_setup_server_locked(W, ch_id, p_cback, ok), ret |-> TRUE, oob |-> FALSE]

UIPC_Open(W, ch_id, p_cback, ok) ==
  IF ch_id >= UIPC_CH_NUM
  THEN [w |-> W, ret |-> FALSE, oob |-> FALSE]
  ELSE IF W.m.ch[ch_id].srvfd # UIPC_DISCONNECTED
  THEN [w |-> W, ret |-> FALSE, oob |-> FALSE]
  ELSE [w |-> uipc_setup_server_locked(W, ch_id, p_cback, ok), ret |-> TRUE, oob |-> FALSE]

\* ch_id # UIPC_CH_ID_ALL
UIPC_Close(W, ch_id) ==
  [w |-> uipc_close_locked(W, ch_id), oob |-> ch_id \notin Chan]

\* the locked part of uipc_stop_main_server_thread
uipc_stop_main_server_thread(W) ==
  uipc_wakeup_locked([W EXCEPT !.m.running = 0])

\* write(fd, p_buf, msglen): all of it to a connected stream socket, else -1
os_write(W, fd, msglen) ==
  IF IsOpen(W.fds, fd) /\ W.fds[fd].kind = "conn" /\ ~W.fds[fd].hup THEN msglen ELSE -1

UIPC_Send(W, ch_id, msglen) ==
  [w |-> W, ret |-> FALSE, oob |-> ch_id \notin Chan,
   written |-> os_write(W, Slot(W, ch_id).fd, msglen)]

\* every request but UIPC_REQ_RX_FLUSH on a connected channel, which loops (FlushStep)
UIPC_Ioctl(W, ch_id, request, param) ==
  LET s == Slot(W, ch_id)
      W1 ==
        CASE request = "UIPC_REG_CBACK" ->
               SetSlot(W, ch_id, [s EXCEPT !.cback = param])
          [] request = "UIPC_REG_REMOVE_ACTIVE_READSET" ->
               IF s.fd # UIPC_DISCONNECTED
               THEN uipc_wakeup_locked([W EXCEPT !.m.active_set = @ \ {s.fd}])
               ELSE W
          [] request = "UIPC_SET_READ_POLL_TMO" ->
               SetSlot(W, ch_id, [s EXCEPT !.read_poll_tmo_ms = param])
          [] OTHER -> W
  IN [w |-> W1, ret |-> FALSE,
      oob |-> ch_id \notin Chan /\ request \in
                {"UIPC_REG_CBACK", "UIPC_REG_REMOVE_ACTIVE_READSET", "UIPC_SET_READ_POLL_TMO"}]

\* uipc_flush_locked reaches the poll loop of uipc_flush_ch_locked
flush_loops(W, ch_id) ==
  ch_id < UIPC_CH_NUM /\ W.m.ch[ch_id].fd # UIPC_DISCONNECTED

\* -------------------------------------------------------------------- state
\* what UIPC_Read finds pending on the channel's connection when it is called
NoPend == [rx |-> 0, hup |-> FALSE]

\* a caller thread: the call it is in (op, ch, the ioctl request, the read length),
\* the descriptor it fetched, the bytes read so far
IdleThr ==
  [pc |-> "idle", op |-> "none", ch |-> 0, request |-> "", len |-> 0, fd |-> -1,
   n_read |-> 0, pend |-> NoPend]

\* a call that returned: who called what (arg: the callback or the ioctl request;
\* len: the payload or buffer length), the boolean result (ret) or the byte count
\* (n), whether it touched memory behind the channel table (oob), and what the
\* system calls under it did (ok: socket creation; written: write()'s result)
NoCall ==
  [t |-> "none", op |-> "none", ch |-> 0, arg |-> "", len |-> 0, ret |-> FALSE, n |-> 0,
   oob |-> FALSE, ok |-> FALSE, written |-> 0, pend |-> NoPend]

\* after UIPC_Init: uipc_main_init succeeded and the read task was started
Init ==
  /\ uipc_main =
       [tid |-> 1, running |-> 1, active_set |-> {3}, read_set |-> {}, max_fd |-> 3,
        signal_fds |-> [i \in 0 .. 1 |-> 3 + i],
        ch |-> [c \in Chan |->
                  [srvfd |-> UIPC_DISCONNECTED, fd |-> UIPC_DISCONNECTED,
                   read_poll_tmo_ms |-> 0, task_evt_flags |-> 0, cback |-> NULL]]]
  /\ fdtab = [f \in FdNums |->
                IF f = 3 THEN [kind |-> "sig0", name |-> -1, q |-> 0, hup |-> FALSE]
                ELSE IF f = 4 THEN [kind |-> "sig1", name |-> -1, q |-> 0, hup |-> FALSE]
                ELSE FreeFd]
  /\ mutex = NoOwner
  /\ task = [pc |-> "top", i |-> 0]
  /\ thr = [t \in Callers |-> IdleThr]
  /\ last = NoCall
  /\ evlog = <<>>
  /\ nclose = [c \in Chan |-> 0]
  /\ oserr = [wakeup |-> FALSE, teardown |-> FALSE, close |-> FALSE]
  /\ ncalls = 0
  /\ nconn = 0
  /\ nwrite = 0

Commit(W) ==
  /\ uipc_main' = W.m
  /\ fdtab' = W.fds
  /\ evlog' = W.ev
  /\ nclose' = W.nc
  /\ oserr' = W.err

Returned(t, op, ch_id, oob) == [NoCall EXCEPT !.t = t, !.op = op, !.ch = ch_id, !.oob = oob]

\* ncalls counts the calls that change something
Count(W) ==
  ncalls' = IF W.m = uipc_main /\ W.fds = fdtab /\ W.err = oserr /\ ~W.blk
            THEN ncalls ELSE ncalls + 1

\* the end of a locked call: it returns, unless its wakeup blocked with the mutex held
LockedReturn(t, W, rec) ==
  /\ Commit(W)
  /\ IF W.blk
     THEN /\ mutex' = t
          /\ thr' = [thr EXCEPT ![t] = [IdleThr EXCEPT !.pc = "blocked"]]
          /\ last' = NoCall
     ELSE /\ mutex' = NoOwner
          /\ thr' = [thr EXCEPT ![t] = IdleThr]
          /\ last' = rec

\* a step in which no call returns and that leaves the table and the kernel alone
NoReturn == last' = NoCall /\ evlog' = <<>>

Untouched == UNCHANGED <<uipc_main, fdtab, nclose, oserr>>

CanCall(t) == thr[t].pc = "idle"

\* ------------------------------------------------------- caller threads
CallOpen(t, ch_id, p_cback) ==
  /\ CanCall(t)
  /\ mutex = NoOwner
  /\ \E ok \in BOOLEAN :
       LET r == UIPC_Open(World(CHOOSE pe \in PastEnd : TRUE), ch_id, p_cback, ok)
       IN /\ LockedReturn(t, r.w, [Returned(t, "open", ch_id, r.oob) EXCEPT
                                      !.arg = p_cback, !.ret = r.ret, !.ok = ok])
          /\ Count(r.w)
  /\ UNCHANGED <<task, nconn, nwrite>>

CallClose(t, ch_id) ==
  /\ CanCall(t)
  /\ ch_id # UIPC_CH_ID_ALL
  /\ mutex = NoOwner
  /\ \E pe \in Found(ch_id) :
       LET r == UIPC_Close(World(pe), ch_id)
       IN /\ LockedReturn(t, r.w, Returned(t, "close", ch_id, r.oob))
          /\ Count(r.w)
  /\ UNCHANGED <<task, nconn, nwrite>>

\* UIPC_Close(UIPC_CH_ID_ALL): clear running and wake the task under the lock, then join
StopBegin(t) ==
  /\ CanCall(t)
  /\ mutex = NoOwner
  /\ ncalls' = ncalls + 1
  /\ LET W == uipc_stop_main_server_thread(World(CHOOSE pe \in PastEnd : TRUE))
     IN /\ Commit(W)
        /\ mutex' = IF W.blk THEN t ELSE NoOwner
        /\ thr' = [thr EXCEPT ![t] =
                     [IdleThr EXCEPT !.pc = IF W.blk THEN "blocked" ELSE "join",
                                     !.op = "close", !.ch = UIPC_CH_ID_ALL]]
  /\ last' = NoCall
  /\ UNCHANGED <<task, nconn, nwrite>>

\* if (uipc_main.tid) pthread_join(...): returns once the task has ended (it clears tid last)
StopJoin(t) ==
  /\ thr[t].pc = "join"
  /\ task.pc = "done"
  /\ thr' = [thr EXCEPT ![t] = IdleThr]
  /\ last' = Returned(t, "close", UIPC_CH_ID_ALL, FALSE)
  /\ evlog' = <<>>
  /\ Untouched
  /\ UNCHANGED <<mutex, task, ncalls, nconn, nwrite>>

CallSend(t, ch_id, msglen) ==
  /\ CanCall(t)
  /\ mutex = NoOwner
  /\ \E pe \in Found(ch_id) :
       LET r == UIPC_Send(World(pe), ch_id, msglen)
       IN /\ LockedReturn(t, r.w, [Returned(t, "send", ch_id, r.oob) EXCEPT
                                      !.len = msglen, !.ret = r.ret, !.written = r.written])
          /\ Count(r.w)
  /\ UNCHANGED <<task, nconn, nwrite>>

IoctlArgs ==
  {<<"UIPC_REQ_RX_FLUSH", 0>>, <<"UIPC_REG_CBACK", "cb2">>,
   <<"UIPC_REG_REMOVE_ACTIVE_READSET", 0>>, <<"UIPC_SET_READ_POLL_TMO", 10>>,
   <<"UNHANDLED", 0>>}

CallIoctl(t, ch_id, request, param) ==
  /\ CanCall(t)
  /\ mutex = NoOwner
  /\ IF request = "UIPC_REQ_RX_FLUSH" /\ flush_loops(World(CHOOSE pe \in PastEnd : TRUE), ch_id)
     THEN /\ mutex' = t
          /\ thr' = [thr EXCEPT ![t] =
                       [IdleThr EXCEPT !.pc = "flush", !.op = "ioctl", !.ch = ch_id,
                                       !.request = request, !.fd = uipc_main.ch[ch_id].fd]]
          /\ ncalls' = ncalls + 1
          /\ NoReturn
          /\ Untouched
     ELSE \E pe \in Found(ch_id) :
            LET r == UIPC_Ioctl(World(pe), ch_id, request, param)
            IN /\ LockedReturn(t, r.w, [Returned(t, "ioctl", ch_id, r.oob) EXCEPT
                                           !.arg = request, !.ret = r.ret])
               /\ Count(r.w)
  /\ UNCHANGED <<task, nconn, nwrite>>

\* the flush reading one buffer and returning
FlushStep_one_read(t) ==
  /\ thr[t].pc = "flush"
  /\ IsOpen(fdtab, thr[t].fd)
  /\ fdtab' = [fdtab EXCEPT ![thr[t].fd].q = @ - Min(@, UIPC_FLUSH_BUFFER_SIZE)]
  /\ mutex' = NoOwner
  /\ thr' = [thr EXCEPT ![t] = IdleThr]
  /\ last' = [Returned(t, "ioctl", thr[t].ch, FALSE) EXCEPT !.arg = thr[t].request]
  /\ evlog' = <<>>
  /\ UNCHANGED <<uipc_main, task, nclose, oserr, ncalls, nconn, nwrite>>

\* one turn of the poll loop of uipc_flush_ch_locked, the mutex held
FlushStep(t) ==
  /\ thr[t].pc = "flush"
  /\ LET fd == thr[t].fd
         e == fdtab[fd]
     IN IF IsOpen(fdtab, fd) /\ (e.hup \/ e.q = 0)
        THEN \* POLLHUP, or the 1 ms poll times out: return
             /\ mutex' = NoOwner
             /\ thr' = [thr EXCEPT ![t] = IdleThr]
             /\ last' = [Returned(t, "ioctl", thr[t].ch, FALSE) EXCEPT !.arg = thr[t].request]
             /\ UNCHANGED fdtab
        ELSE IF IsOpen(fdtab, fd)
        THEN \* read() takes up to one buffer and discards it
             /\ fdtab' = [fdtab EXCEPT ![fd].q = @ - Min(@, UIPC_FLUSH_BUFFER_SIZE)]
             /\ last' = NoCall
             /\ UNCHANGED <<mutex, thr>>
        ELSE \* POLLNVAL is neither POLLERR nor POLLHUP, read() fails, the loop goes on
             /\ last' = NoCall
             /\ UNCHANGED <<mutex, thr, fdtab>>
  /\ evlog' = <<>>
  /\ UNCHANGED <<uipc_main, task, nclose, oserr, ncalls, nconn, nwrite>>

\* UIPC_Read up to its loop: the slot's fd is fetched before ch_id is checked, no lock held
ReadBegin(t, ch_id, len) ==
  /\ CanCall(t)
  /\ \E pe \in Found(ch_id) :
       LET fd == Slot(World(pe), ch_id).fd
           oob == ch_id \notin Chan
           pend == IF IsOpen(fdtab, fd) /\ fdtab[fd].kind = "conn"
                   THEN [rx |-> fdtab[fd].q, hup |-> fdtab[fd].hup]
                   ELSE NoPend
       IN IF ch_id >= UIPC_CH_NUM \/ fd = UIPC_DISCONNECTED
          THEN /\ last' = [Returned(t, "read", ch_id, oob) EXCEPT !.len = len, !.pend = pend]
               /\ thr' = thr
               /\ ncalls' = ncalls
          ELSE /\ thr' = [thr EXCEPT ![t] =
                            [IdleThr EXCEPT !.pc = "poll", !.op = "read", !.ch = ch_id,
                                            !.len = len, !.fd = fd, !.pend = pend]]
               /\ last' = NoCall
               /\ ncalls' = ncalls + 1
  /\ evlog' = <<>>
  /\ Untouched
  /\ UNCHANGED <<mutex, task, nconn, nwrite>>

ReadReturn(t, n) ==
  /\ thr' = [thr EXCEPT ![t] = IdleThr]
  /\ last' = [Returned(t, "read", thr[t].ch, FALSE) EXCEPT
                !.len = thr[t].len, !.n = n, !.pend = thr[t].pend]

\* poll(fd, POLLIN | POLLHUP, read_poll_tmo_ms)
ReadPoll(t) ==
  /\ thr[t].pc = "poll"
  /\ LET fd == thr[t].fd
     IN IF ~IsOpen(fdtab, fd) \/ (fdtab[fd].kind # "srv" /\ fdtab[fd].hup)
        THEN \* POLLNVAL or POLLHUP
             thr' = [thr EXCEPT ![t].pc = "hup"] /\ last' = NoCall
        ELSE IF Readable(fdtab, fd)
        THEN thr' = [thr EXCEPT ![t].pc = "recv"] /\ last' = NoCall
        ELSE \* nothing within the timeout
             ReadReturn(t, thr[t].n_read)
  /\ evlog' = <<>>
  /\ Untouched
  /\ UNCHANGED <<mutex, task, ncalls, nconn, nwrite>>

\* the peer is gone: uipc_close_locked under the lock, return 0
ReadHup(t) ==
  /\ thr[t].pc = "hup"
  /\ mutex = NoOwner
  /\ LockedReturn(t, uipc_close_locked(World(CHOOSE pe \in PastEnd : TRUE), thr[t].ch),
                  [Returned(t, "read", thr[t].ch, FALSE) EXCEPT
                     !.len = thr[t].len, !.pend = thr[t].pend])
  /\ UNCHANGED <<task, ncalls, nconn, nwrite>>

\* recv(fd, p_buf + n_read, len - n_read, 0): blocks while a connected socket is empty
ReadRecv(t) ==
  /\ thr[t].pc = "recv"
  /\ LET fd == thr[t].fd
         e == fdtab[fd]
         n == Min(e.q, thr[t].len - thr[t].n_read)
     IN IF ~IsOpen(fdtab, fd) \/ e.kind # "conn"
        THEN \* n < 0
             ReadReturn(t, 0) /\ fdtab' = fdtab
        ELSE /\ e.q > 0 \/ e.hup
             /\ IF e.q = 0
                THEN thr' = [thr EXCEPT ![t].pc = "hup"] /\ last' = NoCall /\ fdtab' = fdtab
                ELSE /\ fdtab' = [fdtab EXCEPT ![fd].q = @ - n]
                     /\ IF thr[t].n_read + n < thr[t].len
                        THEN /\ thr' = [thr EXCEPT ![t].pc = "poll", ![t].n_read = @ + n]
                             /\ last' = NoCall
                        ELSE ReadReturn(t, thr[t].n_read + n)
  /\ evlog' = <<>>
  /\ UNCHANGED <<uipc_main, mutex, task, nclose, oserr, ncalls, nconn, nwrite>>

\* ------------------------------------------------------------ the read task
\* while (uipc_main.running) { read_set = active_set; ...
TaskTop ==
  /\ task.pc = "top"
  /\ IF uipc_main.running # 0
     THEN /\ uipc_main' = [uipc_main EXCEPT !.read_set = uipc_main.active_set]
          /\ task' = [task EXCEPT !.pc = "select"]
     ELSE /\ task' = [task EXCEPT !.pc = "cleanup"]
          /\ UNCHANGED uipc_main
  /\ NoReturn
  /\ UNCHANGED <<fdtab, mutex, thr, nclose, oserr, ncalls, nconn, nwrite>>

\* select(max_fd + 1, &read_set, ...): EBADF on a closed member, else blocks until one is ready
TaskSelect ==
  /\ task.pc = "select"
  /\ LET watched == {f \in uipc_main.read_set : f <= uipc_main.max_fd}
         ready == {f \in watched : Readable(fdtab, f)}
     IN IF \E f \in watched : ~IsOpen(fdtab, f)
        THEN /\ task' = [task EXCEPT !.pc = "top"]
             /\ UNCHANGED uipc_main
        ELSE /\ ready # {}
             /\ uipc_main' = [uipc_main EXCEPT !.read_set = ready]
             /\ task' = [task EXCEPT !.pc = "pass"]
  /\ NoReturn
  /\ UNCHANGED <<fdtab, mutex, thr, nclose, oserr, ncalls, nconn, nwrite>>

\* the locked block of the iteration
TaskPass ==
  /\ task.pc = "pass"
  /\ mutex = NoOwner
  /\ \E ok \in [Chan -> BOOLEAN] :
       LET W == uipc_read_task_locked(World(CHOOSE pe \in PastEnd : TRUE), ok)
       IN /\ Commit(W)
          /\ mutex' = IF W.blk THEN "task" ELSE NoOwner
          /\ task' = [task EXCEPT !.pc = IF W.blk THEN "blocked" ELSE "top"]
  /\ last' = NoCall
  /\ UNCHANGED <<thr, ncalls, nconn, nwrite>>

\* uipc_main_cleanup, no lock held: both signal descriptors first ...
TaskCleanupSignal ==
  /\ task.pc = "cleanup"
  /\ LET W0 == World(CHOOSE pe \in PastEnd : TRUE)
     IN Commit(os_close(os_close(W0, uipc_main.signal_fds[0]), uipc_main.signal_fds[1]))
  /\ task' = [pc |-> "cleanup_ch", i |-> 0]
  /\ last' = NoCall
  /\ UNCHANGED <<mutex, thr, ncalls, nconn, nwrite>>

\* ... then uipc_close_ch_locked(i) for every channel; after the last, tid = 0 and the task ends
TaskCleanupChannel ==
  /\ task.pc = "cleanup_ch"
  /\ LET W == uipc_close_ch_locked(World(CHOOSE pe \in PastEnd : TRUE), task.i)
     IN IF task.i + 1 < UIPC_CH_NUM
        THEN Commit(W) /\ task' = [task EXCEPT !.i = @ + 1]
        ELSE Commit([W EXCEPT !.m.tid = 0]) /\ task' = [pc |-> "done", i |-> 0]
  /\ last' = NoCall
  /\ UNCHANGED <<mutex, thr, ncalls, nconn, nwrite>>

\* -------------------------------------------------------------------- peers
\* a client connects to the channel's socket name (listen backlog 5)
PeerConnect(c) ==
  /\ nconn < MaxConnects
  /\ \E f \in FdNums :
       /\ fdtab[f].kind = "srv" /\ fdtab[f].name = c /\ fdtab[f].q < 5
       /\ fdtab' = [fdtab EXCEPT ![f].q = @ + 1]
  /\ nconn' = nconn + 1
  /\ NoReturn
  /\ UNCHANGED <<uipc_main, mutex, task, thr, nclose, oserr, ncalls, nwrite>>

\* the peer of accepted connection f writes n bytes
PeerWrite(f, n) ==
  /\ nwrite < MaxWrites
  /\ fdtab[f].kind = "conn" /\ ~fdtab[f].hup
  /\ fdtab' = [fdtab EXCEPT ![f].q = @ + n]
  /\ nwrite' = nwrite + 1
  /\ NoReturn
  /\ UNCHANGED <<uipc_main, mutex, task, thr, nclose, oserr, ncalls, nconn>>

\* the peer of accepted connection f closes its end
PeerClose(f) ==
  /\ fdtab[f].kind = "conn" /\ ~fdtab[f].hup
  /\ fdtab' = [fdtab EXCEPT ![f].hup = TRUE]
  /\ NoReturn
  /\ UNCHANGED <<uipc_main, mutex, task, thr, nclose, oserr, ncalls, nconn, nwrite>>

\* the loop of uipc_read_task, and the task with what follows the loop
TaskLoop == TaskTop \/ TaskSelect \/ TaskPass

Task == TaskLoop \/ TaskCleanupSignal \/ TaskCleanupChannel

Peer ==
  \/ \E c \in Chan : PeerConnect(c)
  \/ \E f \in FdNums, n \in Sizes : PeerWrite(f, n)
  \/ \E f \in FdNums : PeerClose(f)

\* ------------------------------------------------------ the whole program
\* Idle caller threads are interchangeable: a new call is made by the first idle one.
ChanArgs == 0 .. UIPC_CH_NUM

IdleFirst(t) ==
  /\ thr[t].pc = "idle"
  /\ t = "t1" \/ thr["t1"].pc # "idle"

FirstIdle(t) == ncalls < MaxCalls /\ IdleFirst(t)

Caller(t) ==
  \/ \E c \in ChanArgs, cb \in {NULL, "cb1"} : FirstIdle(t) /\ CallOpen(t, c, cb)
  \/ \E c \in ChanArgs : FirstIdle(t) /\ CallClose(t, c)
  \/ FirstIdle(t) /\ StopBegin(t)
  \/ StopJoin(t)
  \/ \E c \in ChanArgs : FirstIdle(t) /\ CallSend(t, c, 1)
  \/ \E c \in ChanArgs, a \in IoctlArgs : FirstIdle(t) /\ CallIoctl(t, c, a[1], a[2])
  \/ FlushStep(t)
  \/ \E c \in ChanArgs, n \in Sizes : FirstIdle(t) /\ ReadBegin(t, c, n)
  \/ ReadPoll(t)
  \/ ReadHup(t)
  \/ ReadRecv(t)

Next == Task \/ Peer \/ \E t \in Callers : Caller(t)

Spec == Init /\ [][Next]_vars

\* ------------------------------------------------------------------- claims
Listening(c) == uipc_main.ch[c].srvfd # UIPC_DISCONNECTED /\ uipc_main.ch[c].fd = UIPC_DISCONNECTED

Connected(c) == uipc_main.ch[c].srvfd # UIPC_DISCONNECTED /\ uipc_main.ch[c].fd # UIPC_DISCONNECTED

Closed(c) == uipc_main.ch[c].srvfd = UIPC_DISCONNECTED /\ uipc_main.ch[c].fd = UIPC_DISCONNECTED

\* C1: UIPC_Open on a channel that has a server endpoint (Listening or Connected)
\* returns false, and the step leaves the channel's srvfd, fd, cback, read_poll_tmo_ms
\* and task_evt_flags, the active set and every descriptor as they were.
C1_OpenOfOpenChannelFails ==
  [][\A c \in Chan :
       (last'.op = "open" /\ last'.ch = c /\ uipc_main.ch[c].srvfd # UIPC_DISCONNECTED)
         => /\ last'.ret = FALSE
            /\ uipc_main'.ch[c] = uipc_main.ch[c]
            /\ uipc_main'.active_set = uipc_main.active_set
            /\ fdtab' = fdtab]_vars

\* an open of a Connected channel has just returned false
C1_Witness ==
  /\ last.op = "open"
  /\ last.ch \in Chan
  /\ last.ret = FALSE
  /\ Connected(last.ch)

\* Concurrent disconnects: one channel is opened with a callback and a peer
\* connects; once it is Connected the caller threads call UIPC_Close on it, in any
\* interleaving with each other, the peers and the read task. (ncalls is 0 until
\* the open has succeeded, then counts the requests that reached the wakeup.)
DisconnectPending(c) == uipc_main.ch[c].task_evt_flags % 2 = UIPC_TASK_FLAG_DISCONNECT_CHAN

DisconnectRequested(c) == DisconnectPending(c) \/ nclose[c] > 0

DiscCaller(t) ==
  \/ \E c \in Chan :
       /\ IdleFirst(t)
       /\ \A d \in Chan : Closed(d) /\ nclose[d] = 0
       /\ CallOpen(t, c, "cb1")
  \/ \E c \in Chan :
       /\ ncalls < 1 + MaxDisconnects
       /\ Connected(c) \/ DisconnectRequested(c)
       /\ CallClose(t, c)

NextDisc == TaskLoop \/ Peer \/ \E t \in Callers : DiscCaller(t)

SpecDisc == Init /\ [][NextDisc]_vars

\* a byte is queued on the wakeup socket and select() watches its read end
WakeupQueued ==
  /\ uipc_main.signal_fds[0] \in uipc_main.active_set
  /\ IsOpen(fdtab, uipc_main.signal_fds[0])
  /\ fdtab[uipc_main.signal_fds[0]].q > 0

\* C2: whatever the number and the interleaving of the UIPC_Close(c) calls made on
\* a Connected channel c, its callback gets UIPC_CLOSE_EVT exactly once: never
\* twice; while a disconnect is pending a wakeup is queued, so the read task
\* reaches its locked block; that block delivers the event and closes both
\* descriptors; and from then on c is Closed with no disconnect pending.
C2_ConcurrentDisconnectClosesOnce ==
  /\ [](\A c \in Chan :
          /\ nclose[c] <= 1
          /\ nclose[c] = 1 => (Closed(c) /\ ~DisconnectPending(c))
          /\ DisconnectPending(c) => (nclose[c] = 0 /\ WakeupQueued))
  /\ [][\A c \in Chan :
          /\ (DisconnectPending(c) /\ task.pc = "pass" /\ task'.pc # "pass")
               => (nclose'[c] = 1 /\ uipc_main'.ch[c].srvfd = UIPC_DISCONNECTED
                   /\ uipc_main'.ch[c].fd = UIPC_DISCONNECTED
                   /\ uipc_main'.ch[c].task_evt_flags = 0)
          /\ (last'.op = "close" /\ last'.ch = c /\ Connected(c))
               => uipc_main'.ch[c].task_evt_flags = UIPC_TASK_FLAG_DISCONNECT_CHAN]_vars

\* every one of the disconnect requests found the channel open and reached the
\* wakeup, and the read task has just delivered the one UIPC_CLOSE_EVT
C2_Witness ==
  \E c \in Chan :
    /\ ncalls = 1 + MaxDisconnects
    /\ evlog = <<<<"cb1", c, "UIPC_CLOSE_EVT">>>>
    /\ nclose[c] = 1
    /\ Closed(c)

\* C3: the peer wrote X > 0 bytes and closed, both pending when UIPC_Read(c, X) is
\* called: the read returns X.
C3_ReadReturnsPendingBytesBeforeHangup ==
  (last.op = "read" /\ last.ch \in Chan /\ last.pend.hup /\ last.pend.rx > 0
     /\ last.pend.rx = last.len)
    => last.n = last.len

\* Shutdown: one thread opens a channel and then calls UIPC_Close(UIPC_CH_ID_ALL),
\* peers connecting, writing and closing meanwhile. (ncalls is 0 until the open
\* has succeeded.)
StopCaller(t) ==
  \/ \E c \in Chan, cb \in {NULL, "cb1"} : t = "t1" /\ ncalls = 0 /\ CallOpen(t, c, cb)
  \/ t = "t1" /\ ncalls = 1 /\ StopBegin(t)
  \/ StopJoin(t)

NextStop == Task \/ Peer \/ \E t \in Callers : StopCaller(t)

SpecStop == Init /\ [][NextStop]_vars

StopReturned == last.op = "close" /\ last.ch = UIPC_CH_ID_ALL

\* C4: when UIPC_Close(UIPC_CH_ID_ALL) returns after an open, every descriptor
\* created (server socket, accepted connections, the wakeup socketpair) has been
\* closed, and none was closed twice.
C4_NoDescriptorLeftAfterCloseAll ==
  StopReturned => ((\A f \in FdNums : fdtab[f].kind = "free") /\ ~oserr.close)

\* Two channels with callbacks: opens with a callback and per-channel closes,
\* peers connecting, writing and closing, the read task looping.
PrioCaller(t) ==
  \/ \E c \in Chan : IdleFirst(t) /\ ncalls < MaxPrioCalls /\ CallOpen(t, c, "cb1")
  \/ \E c \in Chan : IdleFirst(t) /\ ncalls < MaxPrioCalls /\ CallClose(t, c)

NextPrio == TaskLoop \/ Peer \/ \E t \in Callers : PrioCaller(t)

SpecPrio == Init /\ [][NextPrio]_vars

\* the events by which the task services a channel's readiness
IsService(e) == e[3] \in {"UIPC_OPEN_EVT", "UIPC_RX_DATA_READY_EVT"}

\* the place of a channel in the servicing order: audio, then the others by id
ServiceRank(c) == IF c = UIPC_CH_ID_AV_AUDIO THEN 0 ELSE c + 1

\* the select of this iteration reported the peer descriptors of both channels
BothPeersReady ==
  \A c \in Chan :
    uipc_main.ch[c].fd # UIPC_DISCONNECTED /\ uipc_main.ch[c].fd \in uipc_main.read_set

\* C5 as amended: within one iteration of the read task the callbacks that service
\* readiness (UIPC_OPEN_EVT, UIPC_RX_DATA_READY_EVT) are made for the audio channel
\* first and then for the other channels in ascending id; the UIPC_CLOSE_EVT
\* callbacks of pending disconnects come before all of them, in ascending id.
C5_ServicingAudioFirstAfterTeardowns ==
  \A i, j \in DOMAIN evlog :
    i < j =>
      /\ (IsService(evlog[i]) /\ IsService(evlog[j]))
           => ServiceRank(evlog[i][2]) <= ServiceRank(evlog[j][2])
      /\ IsService(evlog[i]) => IsService(evlog[j])
      /\ (~IsService(evlog[i]) /\ ~IsService(evlog[j])) => evlog[i][2] < evlog[j][2]

\* one iteration made a data-ready callback for the audio channel and one for control
C5_Witness ==
  \E i, j \in DOMAIN evlog :
    /\ evlog[i] = <<"cb1", UIPC_CH_ID_AV_AUDIO, "UIPC_RX_DATA_READY_EVT">>
    /\ evlog[j] = <<"cb1", UIPC_CH_ID_AV_CTRL, "UIPC_RX_DATA_READY_EVT">>

\* C5: in an iteration of the read task in which the peer descriptors of both
\* channels are reported ready, every callback made for the audio channel comes
\* before every callback made for the control channel.
C5_AudioCallbackBeforeControlCallback ==
  [][(task.pc = "pass" /\ task'.pc # "pass" /\ BothPeersReady)
       => \A i, j \in DOMAIN evlog' :
            (evlog'[i][2] = UIPC_CH_ID_AV_AUDIO /\ evlog'[j][2] = UIPC_CH_ID_AV_CTRL)
              => i < j]_vars

\* C6: UIPC_Send returns true exactly when write() took the whole payload.
C6_SendReturnsTrueIffAllWritten ==
  (last.op = "send" /\ last.ch \in Chan) => (last.ret <=> last.written = last.len)

\* C7: UIPC_Open returns true only if the channel has its server endpoint when
\* the call returns; a failed creation of the socket leaves it returning false.
C7_OpenTrueOnlyIfListening ==
  (last.op = "open" /\ last.ret = TRUE)
    => (last.ch \in Chan /\ uipc_main.ch[last.ch].srvfd # UIPC_DISCONNECTED)

\* C8: a call whose channel id is none of the table's (UIPC_CH_ID_ALL on close
\* apart) reads and writes nothing behind the table and changes nothing.
C8_InvalidIdTouchesNothing ==
  [][(last'.op # "none" /\ last'.ch >= UIPC_CH_NUM /\ last'.ch # UIPC_CH_ID_ALL)
       => /\ ~last'.oob
          /\ uipc_main' = uipc_main
          /\ fdtab' = fdtab]_vars

\* Flush: one thread opens a channel; a peer connects and writes; then the thread
\* calls UIPC_Ioctl(UIPC_REQ_RX_FLUSH) on the Connected channel and, when that has
\* returned, UIPC_Read. The peer stays connected and writes nothing once the flush
\* has begun. (ncalls is 0 until the open has succeeded, 1 until the flush begins,
\* 2 until the read begins.)
PeerStays ==
  \/ \E c \in Chan : PeerConnect(c)
  \/ \E f \in FdNums, n \in Sizes : ncalls <= 1 /\ PeerWrite(f, n)

FlushCaller(t) ==
  \/ \E c \in Chan, cb \in {NULL, "cb1"} : t = "t1" /\ ncalls = 0 /\ CallOpen(t, c, cb)
  \/ \E c \in Chan :
       /\ t = "t1" /\ ncalls = 1
       /\ uipc_main.ch[c].fd # UIPC_DISCONNECTED
       /\ CallIoctl(t, c, "UIPC_REQ_RX_FLUSH", 0)
  \/ FlushStep(t)
  \/ \E c \in Chan, n \in Sizes :
       /\ t = "t1" /\ ncalls = 2
       /\ uipc_main.ch[c].srvfd # UIPC_DISCONNECTED
       /\ ReadBegin(t, c, n)
  \/ ReadPoll(t)

NextFlush == TaskLoop \/ PeerStays \/ \E t \in Callers : FlushCaller(t)

SpecFlush == Init /\ [][NextFlush]_vars

\* C9: the flush terminates (while it loops its descriptor is open, and each turn
\* of the loop returns or takes bytes off the queue, which nothing refills), and a
\* read made after it finds nothing to receive and returns 0.
C9_ReadAfterFlushReturnsNothing ==
  /\ [](/\ last.op = "read" => last.n = 0
        /\ \A t \in Callers :
             /\ thr[t].pc \notin {"recv", "hup"}
             /\ thr[t].pc = "flush" => IsOpen(fdtab, thr[t].fd))
  /\ [][\A t \in Callers :
          thr[t].pc = "flush" =>
            \/ thr'[t].pc = "idle" /\ fdtab'[thr[t].fd].q = 0
            \/ fdtab'[thr[t].fd].q < fdtab[thr[t].fd].q
            \/ thr'[t] = thr[t] /\ fdtab'[thr[t].fd] = fdtab[thr[t].fd]]_vars

\* bytes were written to the one connection made, the flush ran, and the read
\* of the channel has just returned 0
C9_Witness ==
  /\ last.op = "read"
  /\ last.n = 0
  /\ Connected(last.ch)
  /\ nconn = 1
  /\ nwrite >= 1
  /\ ncalls = 3

\* C10: when UIPC_Close(UIPC_CH_ID_ALL) returns the read task has ended, every
\* channel is Closed, both wakeup descriptors are closed, and no channel's
\* teardown sent its wakeup to a wakeup descriptor already closed.
C10_CloseAllTearsDownBeforeWakeupClosed ==
  StopReturned =>
    /\ task.pc = "done"
    /\ \A c \in Chan : Closed(c)
    /\ \A f \in FdNums : fdtab[f].kind \notin {"sig0", "sig1"}
    /\ ~oserr.teardown

\* the descriptors that are now an endpoint of a channel, and the wakeup's read end
CurrentEndpoints ==
  {uipc_main.signal_fds[0]}
    \cup {uipc_main.ch[c].srvfd : c \in {d \in Chan : uipc_main.ch[d].srvfd # UIPC_DISCONNECTED}}
    \cup {uipc_main.ch[c].fd : c \in {d \in Chan : uipc_main.ch[d].fd # UIPC_DISCONNECTED}}

\* the read task is in its loop and no shutdown has been requested
LoopRunning == uipc_main.running # 0 /\ task.pc \in {"top", "select", "pass"}

\* C11: between init and shutdown the active set is exactly the wakeup's read end
\* and the server and peer descriptors the channels hold now: every one of them
\* is a member, and no other descriptor is.
C11_ActiveSetIsCurrentEndpoints ==
  LoopRunning => uipc_main.active_set = CurrentEndpoints

\* the accepted connections of channel c that have not been closed
PeerDescriptors(c) == {f \in FdNums : fdtab[f].kind = "conn" /\ fdtab[f].name = c}

\* the read task made callback event e for channel c in the step just taken
Emitted(log, c, e) == \E i \in DOMAIN log : log[i][2] = c /\ log[i][3] = e

\* C12: a channel accepts only while Listening: the accepted connections of a
\* channel that are still open are at most the one its slot holds in fd, and
\* UIPC_OPEN_EVT is delivered only for a channel that had no peer descriptor.
C12_AcceptOnlyWhenListening ==
  /\ [](\A c \in Chan : PeerDescriptors(c) \subseteq {uipc_main.ch[c].fd})
  /\ [][\A c \in Chan :
          Emitted(evlog', c, "UIPC_OPEN_EVT") => uipc_main.ch[c].fd = UIPC_DISCONNECTED]_vars

\* caller thread t takes a step of UIPC_Read or of the join that reads uipc_main
\* outside any lock_guard: the fetch of ch[ch_id].fd, the poll with
\* ch[ch_id].read_poll_tmo_ms, the test of tid
ReadsUnlocked(t) ==
  \/ thr[t].pc = "idle" /\ thr'[t].pc = "poll"
  \/ thr[t].pc = "idle" /\ last'.op = "read" /\ last'.t = t
  \/ thr[t].pc \in {"poll", "join"} /\ thr'[t] # thr[t]

\* C13: a field of uipc_main is read or written only by a thread that holds the
\* mutex: while one thread holds it, no other thread takes a step that reads or
\* writes uipc_main (the read task's test of running, its copy of the active set,
\* its select and its cleanup; UIPC_Read's fetch of fd and of the timeout).
C13_SharedStateOnlyUnderLock ==
  [][mutex # NoOwner =>
       /\ mutex # "task" => task' = task
       /\ \A t \in Callers : t # mutex => ~ReadsUnlocked(t)]_vars

\* C14: tearing down a channel that is already Closed is silent: a step that
\* starts with the channel Closed delivers no UIPC_CLOSE_EVT for it, and the
\* teardown that the cleanup runs on a Closed channel leaves the slot, the
\* descriptors and the wakeup as they were.
C14_TeardownOfClosedChannelIsSilent ==
  [][\A c \in Chan :
       Closed(c) =>
         /\ nclose'[c] = nclose[c]
         /\ ~Emitted(evlog', c, "UIPC_CLOSE_EVT")
         /\ (task.pc = "cleanup_ch" /\ task.i = c /\ task' # task)
              => (uipc_main'.ch[c] = uipc_main.ch[c] /\ fdtab' = fdtab /\ oserr' = oserr)]_vars

\* C15: UIPC_Close(c) closes nothing on the caller's thread. When it returns no
\* descriptor has been closed, the slot still holds its srvfd and fd, the active
\* set is as it was and no callback was made; on a channel without a server
\* socket it changed nothing at all, otherwise the disconnect flag is set and a
\* wakeup byte was sent. Every step in which a channel's server or peer descriptor
\* is closed or UIPC_CLOSE_EVT is delivered is a step of the read task.
C15_CloseDefersToReadTask ==
  [][/\ \A c \in Chan :
          (last'.op = "close" /\ last'.ch = c) =>
            /\ \A f \in FdNums : fdtab'[f].kind = fdtab[f].kind
            /\ uipc_main'.ch[c].srvfd = uipc_main.ch[c].srvfd
            /\ uipc_main'.ch[c].fd = uipc_main.ch[c].fd
            /\ uipc_main'.active_set = uipc_main.active_set
            /\ nclose' = nclose /\ evlog' = <<>>
            /\ IF uipc_main.ch[c].srvfd = UIPC_DISCONNECTED
               THEN uipc_main' = uipc_main /\ fdtab' = fdtab /\ oserr' = oserr
               ELSE /\ uipc_main'.ch[c].task_evt_flags % 2 = UIPC_TASK_FLAG_DISCONNECT_CHAN
                    /\ \/ oserr'.wakeup
                       \/ fdtab'[uipc_main.signal_fds[0]].q = fdtab[uipc_main.signal_fds[0]].q + 1
     /\ (\/ nclose' # nclose
         \/ \E f \in FdNums : fdtab[f].kind \in {"srv", "conn"} /\ fdtab'[f].kind = "free")
          => task' # task]_vars

\* UIPC_Close has just returned for a Connected channel, which still has both
\* descriptors and now the disconnect flag
C15_Witness ==
  /\ last.op = "close"
  /\ last.ch \in Chan
  /\ Connected(last.ch)
  /\ IsOpen(fdtab, uipc_main.ch[last.ch].srvfd)
  /\ IsOpen(fdtab, uipc_main.ch[last.ch].fd)
  /\ DisconnectPending(last.ch)

\* C16: a UIPC_Read that found its peer hung up leaves the channel Closed: when
\* the read returns after having been called with the hangup pending, the slot
\* has neither server nor peer descriptor.
C16_ReadHangupLeavesChannelClosed ==
  (last.op = "read" /\ last.ch \in Chan /\ last.pend.hup) => Closed(last.ch)

\* Disconnect, then shutdown: a channel is opened, UIPC_Close is called on it and
\* then UIPC_Close(UIPC_CH_ID_ALL), by either thread, peers connecting, writing and
\* closing meanwhile. (ncalls is 0 until the open has succeeded, 1 until the
\* disconnect has been requested.)
ShutCaller(t) ==
  \/ \E c \in Chan, cb \in {NULL, "cb1"} : t = "t1" /\ ncalls = 0 /\ CallOpen(t, c, cb)
  \/ \E c \in Chan :
       /\ IdleFirst(t) /\ ncalls = 1
       /\ uipc_main.ch[c].srvfd # UIPC_DISCONNECTED
       /\ CallClose(t, c)
  \/ IdleFirst(t) /\ ncalls = 2 /\ StopBegin(t)
  \/ StopJoin(t)

NextShut == Task \/ Peer \/ \E t \in Callers : ShutCaller(t)

SpecShut == Init /\ [][NextShut]_vars

\* C17: the disconnect flag is cleared only by the read task, in the step that
\* leaves the channel Closed; so it is never set on a Closed channel, and none is
\* set once the read task has ended.
C17_FlagClearedWithTeardown ==
  /\ [](\A c \in Chan : DisconnectPending(c) => ~Closed(c))
  /\ [](task.pc = "done" => \A c \in Chan : ~DisconnectPending(c))
  /\ [][\A c \in Chan :
          (DisconnectPending(c) /\ uipc_main'.ch[c].task_evt_flags % 2 = 0)
            => (task' # task /\ uipc_main'.ch[c].srvfd = UIPC_DISCONNECTED
                /\ uipc_main'.ch[c].fd = UIPC_DISCONNECTED)]_vars

\* the select the task is in (or about to enter) does not watch descriptor fd
NotWatched(fd) == task.pc = "select" /\ fd \notin uipc_main.read_set

\* C18: no wakeup is missed by an open. While the task loops, a channel's server
\* descriptor is an open listening socket in the active set and below max_fd + 1,
\* so every snapshot taken after the open watches it; and whenever the task sits
\* in a select that does not watch it, a wakeup byte is queued on the watched
\* read end, so that select returns and the next one is entered with a new
\* snapshot, however many wakeups were sent meanwhile. A locked block that found
\* the server descriptor ready accepts the connection (UIPC_OPEN_EVT when a
\* callback is registered) or, if accept fails, leaves it pending.
C18_OpenIsNeverMissed ==
  /\ [](LoopRunning =>
          \A c \in Chan :
            uipc_main.ch[c].srvfd # UIPC_DISCONNECTED =>
              /\ uipc_main.ch[c].srvfd \in uipc_main.active_set
              /\ uipc_main.ch[c].srvfd <= uipc_main.max_fd
              /\ IsOpen(fdtab, uipc_main.ch[c].srvfd)
              /\ fdtab[uipc_main.ch[c].srvfd].kind = "srv"
              /\ fdtab[uipc_main.ch[c].srvfd].name = c
              /\ NotWatched(uipc_main.ch[c].srvfd) =>
                   (uipc_main.signal_fds[0] \in uipc_main.read_set /\ WakeupQueued))
  /\ [][\A c \in Chan :
          LET sfd == uipc_main.ch[c].srvfd
              nfd == uipc_main'.ch[c].fd
          IN (task.pc = "pass" /\ task' # task /\ sfd \in uipc_main.read_set
                /\ ~DisconnectPending(c))
               => \/ nfd = UIPC_DISCONNECTED /\ fdtab'[sfd].q = fdtab[sfd].q
                  \/ /\ nfd # UIPC_DISCONNECTED
                     /\ fdtab'[nfd].kind = "conn" /\ fdtab'[nfd].name = c
                     /\ fdtab'[sfd].q = fdtab[sfd].q - 1
                     /\ uipc_main.ch[c].cback # NULL => Emitted(evlog', c, "UIPC_OPEN_EVT")]_vars

\* the task is in a select entered before the open of a channel to which a peer
\* has connected since, and the wakeups of two calls are queued
C18_Witness ==
  \E c \in Chan :
    /\ Listening(c)
    /\ NotWatched(uipc_main.ch[c].srvfd)
    /\ fdtab[uipc_main.ch[c].srvfd].q > 0
    /\ fdtab[uipc_main.signal_fds[0]].q >= 2

\* Wakeups without a drain: a channel is opened and, while it has its server
\* socket, UIPC_Close is called on it again and again; every one of these calls
\* sends a wakeup byte. (ncalls counts the calls that sent one.)
SigCaller(t) ==
  \/ \E c \in Chan : t = "t1" /\ ncalls = 0 /\ CallOpen(t, c, "cb1")
  \/ \E c \in Chan :
       /\ IdleFirst(t) /\ ncalls >= 1 /\ ncalls < MaxSignals
       /\ uipc_main.ch[c].srvfd # UIPC_DISCONNECTED
       /\ CallClose(t, c)

NextSig == TaskLoop \/ Peer \/ \E t \in Callers : SigCaller(t)

SpecSig == Init /\ [][NextSig]_vars

\* C19: sending the wakeup never blocks: no thread is ever stopped in the send on
\* the full wakeup socket with the mutex held (the read task then waiting for the
\* mutex it needs to take a byte off).
C19_WakeupNeverBlocks ==
  /\ task.pc # "blocked"
  /\ \A t \in Callers : thr[t].pc # "blocked"

\* channel c has a peer descriptor that is not in the active set (as after
\* UIPC_Ioctl(c, UIPC_REG_REMOVE_ACTIVE_READSET) on a Connected channel)
Detached(c) ==
  /\ uipc_main.ch[c].fd # UIPC_DISCONNECTED
  /\ uipc_main.ch[c].fd \notin uipc_main.active_set

\* C20: once the peer descriptor of a channel has been taken out of the active
\* set, the read task makes no UIPC_RX_DATA_READY_EVT callback for the channel as
\* long as the slot holds that descriptor, wherever the task was at that time.
C20_NoDataReadyAfterDetach ==
  [][\A c \in Chan :
       (Detached(c) /\ uipc_main'.ch[c].fd = uipc_main.ch[c].fd)
         => ~Emitted(evlog', c, "UIPC_RX_DATA_READY_EVT")]_vars

\* C21: the read task makes the UIPC_RX_DATA_READY_EVT callback of a channel only
\* for a descriptor that select reported ready as that channel's peer: the
\* descriptor the slot holds after the locked block is the one it held before it,
\* and it is in the read set. Likewise it accepts (UIPC_OPEN_EVT) only on a server
\* descriptor the slot held before the block and that is in the read set.
C21_ReadinessBelongsToTheChannel ==
  [][\A c \in Chan :
       /\ Emitted(evlog', c, "UIPC_RX_DATA_READY_EVT")
            => /\ uipc_main'.ch[c].fd = uipc_main.ch[c].fd
               /\ uipc_main.ch[c].fd \in uipc_main.read_set
       /\ Emitted(evlog', c, "UIPC_OPEN_EVT")
            => /\ uipc_main'.ch[c].srvfd = uipc_main.ch[c].srvfd
               /\ uipc_main.ch[c].srvfd \in uipc_main.read_set]_vars

\* Read against teardown: a channel is opened with a callback and gets a peer;
\* one thread calls UIPC_Read on it; while that read is in its loop another
\* thread calls UIPC_Close on the channel and then opens a channel, peers
\* connecting, writing and closing meanwhile. (ncalls is 0 until the open has
\* succeeded, 1 until the read has fetched the descriptor, 2 until the disconnect
\* has been requested, 3 until the second open.)
ReadCaller(t) ==
  \/ \E c \in Chan : t = "t1" /\ ncalls = 0 /\ CallOpen(t, c, "cb1")
  \/ \E c \in Chan, n \in Sizes : t = "t1" /\ ncalls = 1 /\ ReadBegin(t, c, n)
  \/ ReadPoll(t)
  \/ ReadHup(t)
  \/ ReadRecv(t)
  \/ \E c \in Chan :
       /\ IdleFirst(t) /\ ncalls = 2
       /\ uipc_main.ch[c].srvfd # UIPC_DISCONNECTED
       /\ CallClose(t, c)
  \/ \E c \in Chan : IdleFirst(t) /\ ncalls = 3 /\ CallOpen(t, c, "cb1")

NextRead == TaskLoop \/ Peer \/ \E t \in Callers : ReadCaller(t)

SpecRead == Init /\ [][NextRead]_vars

\* C22: every poll and every recv of a UIPC_Read of channel c is made on the
\* descriptor that is c's peer at that moment: an open connection of channel c,
\* held in the slot's fd.
C22_ReadUsesTheChannelsPeer ==
  [][\A t \in Callers :
       (thr[t].pc \in {"poll", "recv"} /\ thr'[t] # thr[t])
         => /\ IsOpen(fdtab, thr[t].fd)
            /\ fdtab[thr[t].fd].kind = "conn"
            /\ fdtab[thr[t].fd].name = thr[t].ch
            /\ uipc_main.ch[thr[t].ch].fd = thr[t].fd]_vars

====
